---- MODULE Spec2Model ----
(***************************************************************************)
(* A model of the worker pool of src/src/thread_pool/thread_pool.rs:       *)
(* ThreadPool::new, ThreadPool::execute, Drop for ThreadPool and the loop  *)
(* of the thread spawned by Worker::new, with the mpsc channel, the        *)
(* Arc<Mutex<Receiver>> shared by the workers and the JoinHandles.         *)
(*                                                                         *)
(* One caller thread owns the pool: it calls new, then execute any number  *)
(* of times, then drops the pool.  Each worker thread is a small state     *)
(* machine whose steps are the blocking points and effects of its loop.    *)
(***************************************************************************)
EXTENDS Naturals, Integers, Sequences, FiniteSets, TLC

\* Largest pool size the caller asks for.
MaxSize == 2
\* Largest number of execute calls the caller makes.
MaxJobs == 3

WorkerIds == 0 .. (MaxSize - 1)
JobIds == 1 .. MaxJobs

VARIABLES
    pcMain,       \* where the caller thread is
    size,         \* the argument of ThreadPool::new
    result,       \* what ThreadPool::new returned: "none", "Ok" or "Err"
    sender,       \* the channel's Sender: "none", "live" or "dropped"
    chan,         \* the messages in the channel, oldest first
    locked,       \* the Mutex around the Receiver is held
    poisoned,     \* the Mutex around the Receiver is poisoned
    guard,        \* for each worker, it holds the MutexGuard
    wstate,       \* each worker thread's position in its loop
    wmsg,         \* the message a worker has in hand
    thread,       \* Worker.thread: "Some" or "None"
    spawnId,      \* loop variable of the spawning loop of new
    termSent,     \* Terminate messages sent so far by drop
    joinIdx,      \* index of the worker drop is joining
    nextJob,      \* number of the next job the caller submits
    accepted,     \* jobs whose send in execute succeeded
    dequeuedBy,   \* for each job, the workers that received it
    runCount,     \* for each job, how many times it was invoked
    completed,    \* jobs whose invocation returned
    termConsumed, \* for each worker, Terminate messages it received
    anyFault,     \* some job has panicked
    hcPc,         \* handle_connection: "idle", "sent" or "panicked"
    hcRead,       \* the bytes stream.read put at the start of the buffer
    hcFiles,      \* the contents of hello.html and 404.html
    hcResponse    \* the bytes handle_connection handed to stream.write

vars == <<pcMain, size, result, sender, chan, locked, poisoned, guard, wstate, wmsg,
          thread, spawnId, termSent, joinIdx, nextJob, accepted, dequeuedBy,
          runCount, completed, termConsumed, anyFault,
          hcPc, hcRead, hcFiles, hcResponse>>

poolVars == <<pcMain, size, result, sender, chan, locked, poisoned, guard,
              wstate, wmsg, thread, spawnId, termSent, joinIdx, nextJob,
              accepted, dequeuedBy, runCount, completed, termConsumed, anyFault>>

httpVars == <<hcPc, hcRead, hcFiles, hcResponse>>

mainVars == <<pcMain, size, result, sender, thread, spawnId, termSent,
              joinIdx, nextJob, accepted>>

(***************************************************************************)
(* Messages                                                                *)
(***************************************************************************)
NewJob(j, f) == [type |-> "NewJob", job |-> j, faulty |-> f]
Terminate == [type |-> "Terminate", job |-> 0, faulty |-> FALSE]
NoMsg == [type |-> "None", job |-> 0, faulty |-> FALSE]

(***************************************************************************)
(* Threads                                                                 *)
(***************************************************************************)
\* The thread of worker w has been spawned and has not ended.
Live(w) == wstate[w] \in {"Waiting", "Recv", "Retrieved", "Executing", "Terminating"}

LiveWorkers == {w \in WorkerIds : Live(w)}

\* The thread of worker w has ended, by returning or by a panic.
Finished(w) == wstate[w] \in {"Exited", "Panicked"}

\* The Receiver lives in an Arc: new holds one reference until it returns
\* and every worker's closure holds one until its thread ends.
ReceiverAlive == pcMain = "spawning" \/ LiveWorkers # {}

(***************************************************************************)
(* ThreadPool::new                                                         *)
(***************************************************************************)
SizeRejectedAlt(n) == n < 0

SizeRejected(n) == n <= 0

New(n) ==
    /\ pcMain = "start"
    /\ size' = n
    /\ IF SizeRejected(n)
       THEN /\ pcMain' = "new_err"
            /\ result' = "Err"
            /\ UNCHANGED <<sender, chan, locked, poisoned>>
       ELSE /\ pcMain' = "spawning"
            /\ sender' = "live"
            /\ chan' = <<>>
            /\ locked' = FALSE
            /\ poisoned' = FALSE
            /\ UNCHANGED result
    /\ UNCHANGED <<wstate, wmsg, thread, spawnId, termSent, joinIdx, nextJob,
                   accepted, dequeuedBy, runCount, completed, termConsumed,
                   anyFault>>
    /\ UNCHANGED guard
    /\ UNCHANGED httpVars

SpawnLimitAlt == size - 1

SpawnLimit == size

\* One iteration of `for id in 0..size`: Worker::new(id, ..) spawns the thread.
Spawn ==
    /\ pcMain = "spawning"
    /\ spawnId < SpawnLimit
    /\ wstate' = [wstate EXCEPT ![spawnId] = "Waiting"]
    /\ thread' = [thread EXCEPT ![spawnId] = "Some"]
    /\ spawnId' = spawnId + 1
    /\ UNCHANGED <<pcMain, size, result, sender, chan, locked, poisoned, wmsg,
                   termSent, joinIdx, nextJob, accepted, dequeuedBy, runCount,
                   completed, termConsumed, anyFault>>
    /\ UNCHANGED guard
    /\ UNCHANGED httpVars

NewReturn ==
    /\ pcMain = "spawning"
    /\ spawnId >= SpawnLimit
    /\ pcMain' = "ready"
    /\ result' = "Ok"
    /\ UNCHANGED <<size, sender, chan, locked, poisoned, wstate, wmsg, thread,
                   spawnId, termSent, joinIdx, nextJob, accepted, dequeuedBy,
                   runCount, completed, termConsumed, anyFault>>
    /\ UNCHANGED guard
    /\ UNCHANGED httpVars

(***************************************************************************)
(* The channel                                                             *)
(***************************************************************************)
SendAlt(q, m) == <<m>> \o q

\* Sender::send on an open channel: the message goes to the back.
Send(q, m) == Append(q, m)

RemainingAlt(q) == q

\* Receiver::recv takes the oldest message out of the channel.
Remaining(q) == Tail(q)

(***************************************************************************)
(* ThreadPool::execute                                                     *)
(***************************************************************************)
SendFailsAlt == FALSE

\* send returns Err exactly when the Receiver has been dropped.
SendFails == ~ReceiverAlive

Execute(f) ==
    /\ pcMain = "ready"
    /\ nextJob <= MaxJobs
    /\ nextJob' = nextJob + 1
    /\ IF SendFails
       THEN /\ pcMain' = "execute_panicked"
            /\ UNCHANGED <<chan, accepted>>
       ELSE /\ chan' = Send(chan, NewJob(nextJob, f))
            /\ accepted' = accepted \cup {nextJob}
            /\ UNCHANGED pcMain
    /\ UNCHANGED <<size, result, sender, locked, poisoned, wstate, wmsg,
                   thread, spawnId, termSent, joinIdx, dequeuedBy, runCount,
                   completed, termConsumed, anyFault>>
    /\ UNCHANGED guard
    /\ UNCHANGED httpVars

(***************************************************************************)
(* Drop for ThreadPool                                                     *)
(***************************************************************************)
DropBegin ==
    /\ pcMain = "ready"
    /\ pcMain' = "drop_send"
    /\ UNCHANGED <<size, result, sender, chan, locked, poisoned, wstate, wmsg,
                   thread, spawnId, termSent, joinIdx, nextJob, accepted,
                   dequeuedBy, runCount, completed, termConsumed, anyFault>>
    /\ UNCHANGED guard
    /\ UNCHANGED httpVars

TerminatesToSendMore == size + 1

TerminatesToSendFewer == size - 1

\* `for _ in &self.workers` runs once for each worker of the pool.
TerminatesToSend == size

\* One iteration of `for _ in &self.workers`, and the end of that loop.
DropSend ==
    /\ pcMain = "drop_send"
    /\ IF termSent < TerminatesToSend
       THEN IF SendFails
            THEN /\ pcMain' = "drop_panicked"
                 /\ sender' = "dropped"
                 /\ UNCHANGED <<chan, termSent>>
            ELSE /\ chan' = Send(chan, Terminate)
                 /\ termSent' = termSent + 1
                 /\ UNCHANGED <<pcMain, sender>>
       ELSE /\ pcMain' = "drop_join"
            /\ UNCHANGED <<chan, termSent, sender>>
    /\ UNCHANGED <<size, result, locked, poisoned, wstate, wmsg, thread,
                   spawnId, joinIdx, nextJob, accepted, dequeuedBy, runCount,
                   completed, termConsumed, anyFault>>
    /\ UNCHANGED guard
    /\ UNCHANGED httpVars

JoinReturnsAlt(w) == TRUE

\* JoinHandle::join blocks until the thread has ended.
JoinReturns(w) == Finished(w)

\* One iteration of `for worker in &mut self.workers`, and the end of drop.
DropJoin ==
    /\ pcMain = "drop_join"
    /\ IF joinIdx < size
       THEN /\ thread[joinIdx] = "Some" => JoinReturns(joinIdx)
            /\ thread' = [thread EXCEPT ![joinIdx] = "None"]
            /\ IF thread[joinIdx] = "Some" /\ wstate[joinIdx] = "Panicked"
               THEN /\ pcMain' = "drop_panicked"
                    /\ sender' = "dropped"
                    /\ UNCHANGED joinIdx
               ELSE /\ joinIdx' = joinIdx + 1
                    /\ UNCHANGED <<pcMain, sender>>
       ELSE /\ pcMain' = "dropped"
            /\ sender' = "dropped"
            /\ UNCHANGED <<thread, joinIdx>>
    /\ UNCHANGED <<size, result, chan, locked, poisoned, wstate, wmsg, spawnId,
                   termSent, nextJob, accepted, dequeuedBy, runCount,
                   completed, termConsumed, anyFault>>
    /\ UNCHANGED guard
    /\ UNCHANGED httpVars

(***************************************************************************)
(* The loop of a worker thread (the closure of Worker::new)                *)
(***************************************************************************)
LockAvailableAlt == TRUE

\* Mutex::lock blocks while another thread holds the lock.
LockAvailable == ~locked

\* reciever.lock().expect(..)
WorkerLock(w) ==
    /\ wstate[w] = "Waiting"
    /\ LockAvailable
    /\ IF poisoned
       THEN /\ wstate' = [wstate EXCEPT ![w] = "Panicked"]
            /\ UNCHANGED <<locked, guard>>
       ELSE /\ wstate' = [wstate EXCEPT ![w] = "Recv"]
            /\ locked' = TRUE
            /\ guard' = [guard EXCEPT ![w] = TRUE]
    /\ UNCHANGED <<mainVars, chan, poisoned, wmsg, dequeuedBy, runCount,
                   completed, termConsumed, anyFault>>
    /\ UNCHANGED httpVars

\* .recv().unwrap(): blocks while the channel is empty and the Sender lives.
WorkerRecv(w) ==
    /\ wstate[w] = "Recv"
    /\ IF chan # <<>>
       THEN /\ wmsg' = [wmsg EXCEPT ![w] = Head(chan)]
            /\ chan' = Remaining(chan)
            /\ wstate' = [wstate EXCEPT ![w] = "Retrieved"]
            /\ IF Head(chan).type = "NewJob"
               THEN /\ dequeuedBy' = [dequeuedBy EXCEPT ![Head(chan).job] = @ \cup {w}]
                    /\ UNCHANGED termConsumed
               ELSE /\ termConsumed' = [termConsumed EXCEPT ![w] = @ + 1]
                    /\ UNCHANGED dequeuedBy
            /\ UNCHANGED <<locked, poisoned, guard>>
       ELSE /\ sender = "dropped"
            /\ wstate' = [wstate EXCEPT ![w] = "Panicked"]
            /\ locked' = FALSE
            /\ poisoned' = TRUE
            /\ guard' = [guard EXCEPT ![w] = FALSE]
            /\ UNCHANGED <<wmsg, chan, dequeuedBy, termConsumed>>
    /\ UNCHANGED <<mainVars, runCount, completed, anyFault>>
    /\ UNCHANGED httpVars

AfterJobAlt == "Exited"

\* After job() returns the loop starts over.
AfterJob == "Waiting"

GuardDroppedAfterRecvAlt == FALSE

\* The MutexGuard is a temporary of the `let message = ...;` statement and
\* is dropped at the end of that statement.
GuardDroppedAfterRecv == TRUE

\* End of the `let message = ...;` statement and the `match message`.
WorkerMatch(w) ==
    /\ wstate[w] = "Retrieved"
    /\ guard' = [guard EXCEPT ![w] = IF GuardDroppedAfterRecv THEN FALSE ELSE @]
    /\ locked' = IF GuardDroppedAfterRecv THEN FALSE ELSE locked
    /\ wstate' = [wstate EXCEPT ![w] =
                    IF wmsg[w].type = "NewJob" THEN "Executing" ELSE "Terminating"]
    /\ wmsg' = [wmsg EXCEPT ![w] = IF wmsg[w].type = "NewJob" THEN @ ELSE NoMsg]
    /\ UNCHANGED <<mainVars, chan, poisoned, dequeuedBy, runCount, completed,
                   termConsumed, anyFault>>
    /\ UNCHANGED httpVars

AfterFaultAlt == "Waiting"

\* A panic in job() is not caught: it unwinds the closure and ends the thread.
AfterFault == "Panicked"

\* job(): the job returns, or panics and takes the thread with it.  A
\* MutexGuard still held is dropped at the end of the iteration, and by a
\* panic, which poisons the Mutex.
WorkerRun(w) ==
    /\ wstate[w] = "Executing"
    /\ runCount' = [runCount EXCEPT ![wmsg[w].job] = @ + 1]
    /\ wmsg' = [wmsg EXCEPT ![w] = NoMsg]
    /\ guard' = [guard EXCEPT ![w] = FALSE]
    /\ locked' = IF guard[w] THEN FALSE ELSE locked
    /\ IF wmsg[w].faulty
       THEN /\ wstate' = [wstate EXCEPT ![w] = AfterFault]
            /\ anyFault' = TRUE
            /\ poisoned' = IF guard[w] THEN TRUE ELSE poisoned
            /\ UNCHANGED completed
       ELSE /\ wstate' = [wstate EXCEPT ![w] = AfterJob]
            /\ completed' = completed \cup {wmsg[w].job}
            /\ UNCHANGED <<anyFault, poisoned>>
    /\ UNCHANGED <<mainVars, chan, dequeuedBy, termConsumed>>
    /\ UNCHANGED httpVars

\* `break`: the loop and the thread end.
WorkerExit(w) ==
    /\ wstate[w] = "Terminating"
    /\ wstate' = [wstate EXCEPT ![w] = "Exited"]
    /\ guard' = [guard EXCEPT ![w] = FALSE]
    /\ locked' = IF guard[w] THEN FALSE ELSE locked
    /\ UNCHANGED <<mainVars, chan, poisoned, wmsg, dequeuedBy,
                   runCount, completed, termConsumed, anyFault>>
    /\ UNCHANGED httpVars

(***************************************************************************)
(* handle_connection (src/src/main.rs)                                     *)
(***************************************************************************)
\* Byte strings of the program text.
GetRootLine == <<71, 69, 84, 32, 47, 32, 72, 84, 84, 80, 47, 49, 46, 49, 13, 10>>
StatusOk == <<72, 84, 84, 80, 47, 49, 46, 49, 32, 50, 48, 48, 32, 79, 75>>
StatusNotFound == <<72, 84, 84, 80, 47, 49, 46, 49, 32, 52, 48, 52, 32, 78, 79, 84, 32, 70, 79, 85, 78, 68>>
ContentLengthLabel == <<13, 10, 67, 111, 110, 116, 101, 110, 116, 45, 76, 101, 110, 103, 116, 104, 58, 32>>
CrLf == <<13, 10>>

\* `let mut buffer = [0; 1024]`
BufferSize == 1024

\* A String is a sequence of chars, each char being its UTF-8 bytes.
CharH == <<104>>
CharEAcute == <<195, 169>>
CharEmoji == <<240, 159, 152, 128>>
CharCr == <<13>>
CharLf == <<10>>

\* The requests a client sends.
Requests ==
    { GetRootLine,
      GetRootLine \o <<72, 111, 115, 116, 58, 32, 120, 13, 10, 13, 10>>,
      <<71, 69, 84, 32, 47, 109, 105, 115, 115, 105, 110, 103, 32, 72, 84, 84, 80, 47, 49, 46, 49, 13, 10>>,
      <<71, 69, 84, 32, 47, 32, 72, 84, 84, 80, 47, 49, 46, 48, 13, 10>>,
      <<103, 101, 116, 32, 47, 32, 72, 84, 84, 80, 47, 49, 46, 49, 13, 10>>,
      <<80, 79, 83, 84, 32, 47, 32, 72, 84, 84, 80, 47, 49, 46, 49, 13, 10>>,
      <<32, 71, 69, 84, 32, 47, 32, 72, 84, 84, 80, 47, 49, 46, 49, 13, 10>> }

\* The contents hello.html and 404.html may have.
FileContents ==
    { <<>>,
      <<CharH>>,
      <<CharH, CharEAcute>>,
      <<CharCr, CharLf, CharCr, CharLf, CharH>>,
      <<CharEmoji, CharEmoji, CharEmoji>> }

\* What fs::read_to_string finds: a readable file with its contents, or a
\* file it cannot read.
Files ==
    {[ok |-> TRUE, text |-> t] : t \in FileContents} \cup {[ok |-> FALSE, text |-> <<>>]}

RECURSIVE Utf8(_)
\* The bytes of a String.
Utf8(str) == IF str = <<>> THEN <<>> ELSE Head(str) \o Utf8(Tail(str))

StrLenAlt(str) == Len(str)

\* String::len is the length in bytes.
StrLen(str) == Len(Utf8(str))

RECURSIVE Decimal(_)
\* `{}` of a usize: its decimal digits.
Decimal(n) ==
    IF n < 10 THEN <<48 + n>> ELSE Decimal(n \div 10) \o <<48 + (n % 10)>>

\* The buffer after stream.read: the bytes read, then the zeros it held.
Buffer(bytes) == [i \in 1 .. BufferSize |-> IF i <= Len(bytes) THEN bytes[i] ELSE 0]

StartsWithAlt(buf, needle) == buf = needle

\* <[u8]>::starts_with
StartsWith(buf, needle) ==
    /\ Len(needle) <= Len(buf)
    /\ \A i \in 1 .. Len(needle) : buf[i] = needle[i]

\* format!("{}\r\nContent-Length: {}\r\n\r\n{}", status_line, contents.len(), contents)
FormatResponse(status, contents) ==
    status \o ContentLengthLabel \o Decimal(StrLen(contents)) \o CrLf \o CrLf
        \o Utf8(contents)

\* The whole of handle_connection for a request of which read delivers the
\* first n bytes, with the two files as they are on disk.
HandleConnection(req, n, files) ==
    /\ hcPc = "idle"
    /\ hcRead' = SubSeq(req, 1, n)
    /\ hcFiles' = files
    /\ LET buffer == Buffer(SubSeq(req, 1, n))
           isRoot == StartsWith(buffer, GetRootLine)
           file == IF isRoot THEN files.hello ELSE files.notFound
           status == IF isRoot THEN StatusOk ELSE StatusNotFound
       IN  IF ~file.ok
           THEN /\ hcPc' = "panicked"
                /\ hcResponse' = <<>>
           ELSE /\ hcPc' = "sent"
                /\ hcResponse' = FormatResponse(status, file.text)
    /\ UNCHANGED poolVars

HttpNext ==
    \E req \in Requests : \E n \in 0 .. Len(req) :
        \E files \in [hello : Files, notFound : Files] :
            HandleConnection(req, n, files)

(***************************************************************************)
(* Specifications                                                          *)
(***************************************************************************)
Init ==
    /\ pcMain = "start"
    /\ size = 0
    /\ result = "none"
    /\ sender = "none"
    /\ chan = <<>>
    /\ locked = FALSE
    /\ poisoned = FALSE
    /\ guard = [w \in WorkerIds |-> FALSE]
    /\ wstate = [w \in WorkerIds |-> "Unspawned"]
    /\ wmsg = [w \in WorkerIds |-> NoMsg]
    /\ thread = [w \in WorkerIds |-> "None"]
    /\ spawnId = 0
    /\ termSent = 0
    /\ joinIdx = 0
    /\ nextJob = 1
    /\ accepted = {}
    /\ dequeuedBy = [j \in JobIds |-> {}]
    /\ runCount = [j \in JobIds |-> 0]
    /\ completed = {}
    /\ termConsumed = [w \in WorkerIds |-> 0]
    /\ anyFault = FALSE
    /\ hcPc = "idle"
    /\ hcRead = <<>>
    /\ hcFiles = [hello |-> [ok |-> FALSE, text |-> <<>>],
                  notFound |-> [ok |-> FALSE, text |-> <<>>]]
    /\ hcResponse = <<>>

Next ==
    \/ \E n \in 0 .. MaxSize : New(n)
    \/ Spawn
    \/ NewReturn
    \/ \E f \in BOOLEAN : Execute(f)
    \/ DropBegin
    \/ DropSend
    \/ DropJoin
    \/ \E w \in WorkerIds : WorkerLock(w)
    \/ \E w \in WorkerIds : WorkerRecv(w)
    \/ \E w \in WorkerIds : WorkerMatch(w)
    \/ \E w \in WorkerIds : WorkerRun(w)
    \/ \E w \in WorkerIds : WorkerExit(w)

Spec == Init /\ [][Next]_vars

\* handle_connection on its own: main calls it for each connection and does
\* not use the pool.
HttpSpec == Init /\ [][HttpNext]_vars

\* The threads keep running: every thread that can take a step eventually
\* takes one.  The caller is free never to call execute or to drop the pool.
\* The steps of the caller thread inside new and drop.
MainStep == Spawn \/ NewReturn \/ DropSend \/ DropJoin

\* The steps of the thread of worker w.
WorkerStep(w) ==
    \/ WorkerLock(w)
    \/ WorkerRecv(w)
    \/ WorkerMatch(w)
    \/ WorkerRun(w)
    \/ WorkerExit(w)

Fairness ==
    /\ WF_vars(MainStep)
    /\ \A w \in WorkerIds : WF_vars(WorkerStep(w))

FairSpec == Spec /\ Fairness

TypeOK ==
    /\ pcMain \in {"start", "new_err", "spawning", "ready", "execute_panicked",
                   "drop_send", "drop_join", "dropped", "drop_panicked"}
    /\ size \in 0 .. MaxSize
    /\ result \in {"none", "Ok", "Err"}
    /\ sender \in {"none", "live", "dropped"}
    /\ locked \in BOOLEAN
    /\ poisoned \in BOOLEAN
    /\ \A w \in WorkerIds :
        wstate[w] \in {"Unspawned", "Waiting", "Recv", "Retrieved", "Executing",
                       "Terminating", "Exited", "Panicked"}
    /\ termSent \in 0 .. MaxSize
    /\ joinIdx \in 0 .. MaxSize
    /\ nextJob \in 1 .. (MaxJobs + 1)

(***************************************************************************)
(* Properties                                                              *)
(***************************************************************************)
PoolWorkers == 0 .. (size - 1)

InReceive == {w \in WorkerIds : wstate[w] \in {"Recv", "Retrieved"}}

JobsInChannel == {i \in 1 .. Len(chan) : chan[i].type = "NewJob"}

TerminatesInChannel == {i \in 1 .. Len(chan) : chan[i].type = "Terminate"}

\* C1: no duplication. Every job is received by at most one worker and
\* invoked at most once, and two workers never have the same job in hand.
NoDuplication ==
    /\ \A j \in JobIds :
        /\ Cardinality(dequeuedBy[j]) <= 1
        /\ runCount[j] <= 1
        /\ dequeuedBy[j] # {} => j \in accepted
    /\ \A w1, w2 \in WorkerIds :
        (w1 # w2 /\ wmsg[w1].type = "NewJob" /\ wmsg[w2].type = "NewJob")
            => wmsg[w1].job # wmsg[w2].job

NoDuplicationWitness ==
    \E j1, j2 \in JobIds :
        /\ j1 # j2
        /\ runCount[j1] = 1
        /\ runCount[j2] = 1
        /\ dequeuedBy[j1] # dequeuedBy[j2]

\* C2: no loss. Under fair scheduling every accepted job is eventually run
\* to completion unless some job faults, and when drop has returned every
\* accepted job has completed.
NoLoss ==
    /\ \A j \in JobIds : (j \in accepted) ~> (j \in completed \/ anyFault)
    /\ [](pcMain = "dropped" => accepted \subseteq completed)

NoLossWitness ==
    /\ pcMain = "dropped"
    /\ Cardinality(accepted) > size
    /\ accepted \subseteq completed

\* C3: drop returns only after every worker thread of the pool has exited.
TeardownWaitsForWorkers ==
    pcMain = "dropped" =>
        /\ \A w \in PoolWorkers : wstate[w] = "Exited"
        /\ LiveWorkers = {}

TeardownWaitsForWorkersWitness ==
    /\ pcMain = "dropped"
    /\ size = MaxSize
    /\ \A w \in PoolWorkers : wstate[w] = "Exited"

ShutdownTerminates ==
    (pcMain = "drop_send") ~> (pcMain = "dropped" \/ anyFault)

\* drop waits for worker 0 while a later worker has already exited.
ShutdownTerminatesWitness ==
    /\ pcMain = "drop_join"
    /\ joinIdx = 0
    /\ ~Finished(0)
    /\ \E w \in PoolWorkers : wstate[w] = "Exited"

PoolHasNWorkers ==
    /\ [](size >= 1 => pcMain # "new_err" /\ result # "Err")
    /\ [](pcMain = "ready" =>
            /\ result = "Ok"
            /\ {w \in WorkerIds : wstate[w] # "Unspawned"} = PoolWorkers
            /\ ~anyFault => LiveWorkers = PoolWorkers /\ Cardinality(LiveWorkers) = size)
    /\ [][\A w \in WorkerIds :
            (wstate[w] = "Unspawned" /\ wstate'[w] # "Unspawned")
                => (wstate'[w] = "Waiting" /\ w = spawnId /\ pcMain = "spawning")]_vars

PoolHasNWorkersWitness ==
    /\ pcMain = "ready"
    /\ size = MaxSize
    /\ ~anyFault
    /\ completed # {}
    /\ \E w \in WorkerIds : wstate[w] = "Executing"

\* C8: mutual exclusion. At most one worker is between lock and the end of
\* the recv statement, and the lock is held exactly when one is.
ReceiveMutualExclusion ==
    /\ Cardinality(InReceive) <= 1
    /\ locked <=> InReceive # {}

ReceiveMutualExclusionWitness ==
    /\ \E w \in WorkerIds : wstate[w] = "Recv"
    /\ \E w \in WorkerIds : wstate[w] = "Waiting"
    /\ chan # <<>>

\* C9: jobs precede Terminate. In the channel no job is behind a Terminate,
\* and once a worker has received a Terminate no job is in the channel.
JobsPrecedeTerminate ==
    /\ \A i, k \in 1 .. Len(chan) :
        (i < k /\ chan[i].type = "Terminate") => chan[k].type = "Terminate"
    /\ (\E w \in WorkerIds : termConsumed[w] > 0 \/ wstate[w] \in {"Terminating", "Exited"})
        => JobsInChannel = {}

JobsPrecedeTerminateWitness ==
    /\ Len(chan) >= 2
    /\ chan[1].type = "NewJob"
    /\ chan[Len(chan)].type = "Terminate"

\* C10: an execute call made when every worker thread has ended fails in
\* the caller and accepts nothing; an execute call made while some worker
\* thread is live puts the job at the back of the channel.
ExecuteOutcome ==
    [][nextJob' = nextJob + 1 =>
        IF LiveWorkers = {}
        THEN /\ pcMain' = "execute_panicked"
             /\ accepted' = accepted
             /\ chan' = chan
        ELSE /\ pcMain' = "ready"
             /\ accepted' = accepted \cup {nextJob}
             /\ Len(chan') = Len(chan) + 1
             /\ chan'[Len(chan')].type = "NewJob"
             /\ chan'[Len(chan')].job = nextJob]_vars

ExecuteOutcomeWitness ==
    /\ pcMain = "execute_panicked"
    /\ LiveWorkers = {}
    /\ accepted # {}

\* C11: new panics when the requested size is zero (or less).
NewPanicsOnZeroSize ==
    (pcMain # "start" /\ size <= 0) =>
        /\ pcMain = "new_panicked"
        /\ result = "none"

\* C12: no accepted job is dropped, job faults included: when the pool has
\* been torn down and no worker thread is left, every accepted job was run.
NoAcceptedJobDropped ==
    (pcMain \in {"dropped", "drop_panicked"} /\ LiveWorkers = {}) =>
        /\ \A j \in accepted : runCount[j] >= 1
        /\ JobsInChannel = {}

\* C13: no thread is leaked, job faults included: when drop has ended, by
\* returning or by a panic, no worker thread is still running.
NoThreadLeaked ==
    pcMain \in {"dropped", "drop_panicked"} => LiveWorkers = {}

\* C15: the receive lock is released before the job is invoked. A worker
\* holds the MutexGuard only inside the lock-then-recv step, never while
\* executing, and the step that ends the recv statement releases the lock.
LockReleasedBeforeJob ==
    /\ [](\A w \in WorkerIds : guard[w] => wstate[w] \in {"Recv", "Retrieved"})
    /\ [](\A w \in WorkerIds : wstate[w] = "Executing" => ~guard[w])
    /\ [][\A w \in WorkerIds :
            (wstate[w] = "Retrieved" /\ wstate'[w] # "Retrieved")
                => (locked /\ ~locked' /\ ~guard'[w])]_vars

LockReleasedBeforeJobWitness ==
    \E w, v \in WorkerIds :
        /\ wstate[w] = "Executing"
        /\ wstate[v] = "Recv"
        /\ locked
        /\ guard[v]

\* The states of a worker as the specification names them: Waiting covers
\* waiting for the lock, waiting in recv and having the message in hand.
Phase(st) == IF st \in {"Waiting", "Recv", "Retrieved"} THEN "Waiting" ELSE st

\* C16: the worker state machine. Absent faults a worker only goes from
\* Waiting to Executing (with a job in hand), from Executing to Waiting,
\* from Waiting to Terminating (with a Terminate received) and from
\* Terminating to Exited; it never exits while Executing, and an exited
\* worker never takes the lock, receives a message or runs a job again.
WorkerStateMachine ==
    [][\A w \in WorkerIds :
        LET a == Phase(wstate[w])
            b == Phase(wstate'[w])
        IN  /\ (a # b /\ b # "Panicked") =>
                   <<a, b>> \in {<<"Unspawned", "Waiting">>,
                                 <<"Waiting", "Executing">>,
                                 <<"Executing", "Waiting">>,
                                 <<"Waiting", "Terminating">>,
                                 <<"Terminating", "Exited">>}
            /\ (a = "Unspawned" /\ a # b) => wstate'[w] = "Waiting"
            /\ (a # b /\ b = "Executing") => wmsg[w].type = "NewJob"
            /\ (a # b /\ b = "Terminating") =>
                   (wmsg[w].type = "Terminate" /\ termConsumed[w] = 1)
            /\ (a = "Executing" /\ a # b /\ b # "Panicked") =>
                   wmsg[w].job \in completed'
            /\ a = "Exited" =>
                   /\ wstate'[w] = "Exited"
                   /\ ~guard'[w]
                   /\ wmsg'[w] = wmsg[w]
                   /\ termConsumed'[w] = termConsumed[w]
                   /\ \A j \in JobIds : w \in dequeuedBy'[j] => w \in dequeuedBy[j]]_vars

WorkerStateMachineWitness ==
    \E w \in WorkerIds :
        /\ wstate[w] = "Exited"
        /\ termConsumed[w] = 1
        /\ Cardinality({j \in completed : dequeuedBy[j] = {w}}) >= 2

\* C18: a job fault ends the worker thread that ran the job and nothing
\* else: that step takes this one worker out of the live workers and leaves
\* every other worker, the channel and the lock as they were; a worker
\* ended by a fault stays ended, and no worker thread is started after new.
FaultEndsOnlyItsWorker ==
    [][/\ \A w \in WorkerIds :
            (wstate[w] = "Executing" /\ wmsg[w].faulty /\ wstate'[w] # "Executing") =>
                /\ wstate'[w] = "Panicked"
                /\ LiveWorkers' = LiveWorkers \ {w}
                /\ Cardinality(LiveWorkers') = Cardinality(LiveWorkers) - 1
                /\ \A v \in WorkerIds \ {w} : wstate'[v] = wstate[v]
                /\ chan' = chan
                /\ locked' = locked
                /\ poisoned' = poisoned
       /\ \A w \in WorkerIds :
            wstate[w] = "Panicked" =>
                /\ wstate'[w] = "Panicked"
                /\ termConsumed'[w] = termConsumed[w]
                /\ \A j \in JobIds : w \in dequeuedBy'[j] => w \in dequeuedBy[j]
       /\ \A w \in WorkerIds :
            (~Live(w) /\ Live(w)') => (wstate[w] = "Unspawned" /\ pcMain = "spawning")]_vars

\* A worker has ended by a fault and another worker has completed a job
\* submitted after the faulty one.
FaultEndsOnlyItsWorkerWitness ==
    \E w, v \in WorkerIds : \E jf, j \in JobIds :
        /\ w # v
        /\ wstate[w] = "Panicked"
        /\ dequeuedBy[jf] = {w}
        /\ runCount[jf] = 1
        /\ jf \notin completed
        /\ jf < j
        /\ dequeuedBy[j] = {v}
        /\ j \in completed
        /\ Live(v)

\* The live workers that have not received their Terminate.
UnterminatedWorkers == {w \in LiveWorkers : termConsumed[w] = 0}

\* C19: the receive lock is never poisoned. No worker thread has ended
\* holding the MutexGuard; no worker waits in recv on an empty channel whose
\* Sender is gone; once drop is past its send loop or has ended, the channel
\* holds a Terminate for every live worker that has not received one.
LockNeverPoisoned ==
    /\ ~poisoned
    /\ \A w \in WorkerIds : Finished(w) => ~guard[w]
    /\ \A w \in WorkerIds :
        (wstate[w] = "Recv" /\ chan = <<>>) => sender = "live"
    /\ (pcMain \in {"drop_join", "dropped", "drop_panicked"} \/ sender = "dropped") =>
        Cardinality(TerminatesInChannel) >= Cardinality(UnterminatedWorkers)

\* drop has ended by a panic after a job fault and a live worker is in recv.
LockNeverPoisonedWitness ==
    /\ anyFault
    /\ pcMain = "drop_panicked"
    /\ sender = "dropped"
    /\ \E w \in WorkerIds : wstate[w] = "Recv" /\ guard[w]

\* C20: when no job has faulted every Terminate send of drop succeeds: at
\* the k-th send at most k-1 workers have ended, so a worker is live and the
\* Receiver exists, and drop does not panic.
TerminateSendsSucceed ==
    ~anyFault =>
        /\ pcMain # "drop_panicked"
        /\ pcMain = "drop_send" =>
            Cardinality({w \in PoolWorkers : Finished(w)}) <= termSent
        /\ (pcMain = "drop_send" /\ termSent < size) =>
            (LiveWorkers # {} /\ ~SendFails)

TerminateSendsSucceedWitness ==
    /\ ~anyFault
    /\ pcMain = "drop_send"
    /\ termSent >= 1
    /\ termSent < size
    /\ \E w \in PoolWorkers : wstate[w] = "Exited"

\* The long-running jobs of the draining scenario: as many as a pool of
\* `size` workers can hold while one worker stays free.  They may run for
\* ever; every other step of every thread is still taken eventually.
LongJob(j) == j < size

DrainFairness ==
    /\ WF_vars(MainStep)
    /\ \A w \in WorkerIds :
        WF_vars(WorkerStep(w) /\ ~(wstate[w] = "Executing" /\ LongJob(wmsg[w].job)))

DrainSpec == Spec /\ DrainFairness

\* C17: concurrent draining. With N >= 2 workers and N-1 long-running jobs
\* that need never return, every other accepted job is still completed
\* (unless a job faults), so completion order is not submission order.
ConcurrentDraining ==
    \A j \in JobIds :
        (size >= 2 /\ j \in accepted /\ ~LongJob(j)) ~> (j \in completed \/ anyFault)

\* A job submitted later has completed while an earlier one is still running.
ConcurrentDrainingWitness ==
    \E w \in WorkerIds : \E j \in JobIds :
        /\ wstate[w] = "Executing"
        /\ LongJob(wmsg[w].job)
        /\ wmsg[w].job < j
        /\ j \in completed
        /\ ~anyFault

\* The place of the first occurrence of `needle` in `bytes`, or 0.
Find(bytes, needle) ==
    LET hits == {i \in 1 .. (Len(bytes) + 1 - Len(needle)) :
                    SubSeq(bytes, i, i + Len(needle) - 1) = needle}
    IN  IF hits = {} THEN 0 ELSE CHOOSE i \in hits : \A k \in hits : i <= k

\* The status line, the header and the body of a response, as a client
\* reads them.
ResponseStatus(resp) == SubSeq(resp, 1, Find(resp, CrLf) - 1)

ResponseHeader(resp) == SubSeq(resp, Find(resp, CrLf) + 2, Find(resp, CrLf \o CrLf) - 1)

ResponseBody(resp) == SubSeq(resp, Find(resp, CrLf \o CrLf) + 4, Len(resp))

RECURSIVE ParseDecimal(_)
ParseDecimal(digits) ==
    IF digits = <<>> THEN 0
    ELSE 10 * ParseDecimal(SubSeq(digits, 1, Len(digits) - 1)) + (digits[Len(digits)] - 48)

HeaderLabel == SubSeq(ContentLengthLabel, 3, Len(ContentLengthLabel))

\* The value of the Content-Length header of a response, or -1.
ResponseContentLength(resp) ==
    LET h == ResponseHeader(resp)
        v == SubSeq(h, Len(HeaderLabel) + 1, Len(h))
    IN  IF /\ Len(h) > Len(HeaderLabel)
           /\ SubSeq(h, 1, Len(HeaderLabel)) = HeaderLabel
           /\ \A i \in 1 .. Len(v) : v[i] \in 48 .. 57
        THEN ParseDecimal(v)
        ELSE -1

BeginsWithGetRoot(bytes) ==
    /\ Len(bytes) >= 16
    /\ SubSeq(bytes, 1, 16) = GetRootLine

====
